---------------------------- MODULE Spec2Model ----------------------------
(***************************************************************************)
(* Model of sessions-analytics-to-supabase.py: a script that reads the     *)
(* newest end_epoch of the table sessions_from_analytics, resolves the     *)
(* window of days from the day after it (or 2023-01-01) through yesterday, *)
(* and for each day fetches the session count and inserts one row.         *)
(*                                                                         *)
(* Dates are modelled as the standard library computes them: a date string *)
(* "%Y-%m-%d" is a record [y, m, d]; a naive datetime is a record          *)
(* [ord, sec] of the proleptic Gregorian ordinal and the second of the     *)
(* day; strptime/strftime convert between the two through ordinals, and    *)
(* timestamp() of a naive datetime reads it as LOCAL wall time of the      *)
(* host's time zone, while fromtimestamp(e, timezone.utc) and utcnow()     *)
(* read the clock in UTC.                                                  *)
(***************************************************************************)
EXTENDS Integers, Sequences, FiniteSets, TLC

(***************************************************************************)
(* Bounds of the model.                                                    *)
(***************************************************************************)
\* number of runs of the entry point that are started
MaxRuns == 2
\* number of half-day steps the clock takes
MaxTicks == 5
\* number of calls of fetch_sessions_for_date that are followed, over all runs
MaxFetches == 3

(***************************************************************************)
(* Calendar arithmetic of datetime (ordinals, as strptime / strftime /     *)
(* timedelta use them).                                                    *)
(***************************************************************************)
\* Python's None where a date string is expected: no date
None == [y |-> 0, m |-> 0, d |-> 0]

\* timedelta(days=1), in seconds
SecondsPerDay == 86400

\* the clock step of the environment: half a day
TickStep == SecondsPerDay \div 2

IsLeap(y) == y % 4 = 0 /\ (y % 100 # 0 \/ y % 400 = 0)

DaysBeforeYear(y) ==
    LET p == y - 1 IN p * 365 + (p \div 4) - (p \div 100) + (p \div 400)

DaysInMonth(y, m) ==
    IF m = 2 /\ IsLeap(y) THEN 29
    ELSE <<31, 28, 31, 30, 31, 30, 31, 31, 30, 31, 30, 31>>[m]

DaysBeforeMonth(y, m) ==
    <<0, 31, 59, 90, 120, 151, 181, 212, 243, 273, 304, 334>>[m]
        + (IF m > 2 /\ IsLeap(y) THEN 1 ELSE 0)

\* date(y, m, d).toordinal()
Ymd2Ord(y, m, d) == DaysBeforeYear(y) + DaysBeforeMonth(y, m) + d

\* date.fromordinal(n), as [y, m, d]
Ord2Ymd(n) ==
    LET n0   == n - 1
        n400 == n0 \div 146097
        r400 == n0 % 146097
        n100 == r400 \div 36524
        r100 == r400 % 36524
        n4   == r100 \div 1461
        r4   == r100 % 1461
        n1   == r4 \div 365
        r1   == r4 % 365
        year == n400 * 400 + 1 + n100 * 100 + n4 * 4 + n1
    IN  IF n1 = 4 \/ n100 = 4
        THEN [y |-> year - 1, m |-> 12, d |-> 31]
        ELSE LET leap  == n1 = 3 /\ (n4 # 24 \/ n100 = 3)
                 mon0  == (r1 + 50) \div 32
                 prec0 == <<0, 31, 59, 90, 120, 151, 181, 212, 243, 273, 304, 334>>[mon0]
                              + (IF mon0 > 2 /\ leap THEN 1 ELSE 0)
                 back  == prec0 > r1
                 mon   == IF back THEN mon0 - 1 ELSE mon0
                 dim   == <<31, 28, 31, 30, 31, 30, 31, 31, 30, 31, 30, 31>>[mon]
                              + (IF mon = 2 /\ leap THEN 1 ELSE 0)
                 prec  == IF back THEN prec0 - dim ELSE prec0
             IN  [y |-> year, m |-> mon, d |-> r1 - prec + 1]

\* the date string "y-m-d"
DateStr(y, m, d) == [y |-> y, m |-> m, d |-> d]

\* datetime.strptime(s, "%Y-%m-%d"): a naive datetime at midnight
StrpTime(s) == [ord |-> Ymd2Ord(s.y, s.m, s.d), sec |-> 0]

\* dt.strftime("%Y-%m-%d")
StrfTime(dt) == Ord2Ymd(dt.ord)

\* dt + timedelta(days=n)
PlusDays(dt, n) == [ord |-> dt.ord + n, sec |-> dt.sec]

\* a <= b on naive datetimes
DtLeq(a, b) == a.ord < b.ord \/ (a.ord = b.ord /\ a.sec <= b.sec)

\* date(1970, 1, 1).toordinal()
EpochOrd == Ymd2Ord(1970, 1, 1)

\* datetime.fromtimestamp(e, timezone.utc) and datetime.utcnow(): the UTC
\* wall time of an epoch
FromTimestampUtc(e) ==
    [ord |-> EpochOrd + (e \div SecondsPerDay), sec |-> e % SecondsPerDay]

(***************************************************************************)
(* The host's time zone.  timestamp() of a naive datetime interprets it as *)
(* local wall time (mktime); the zone is part of the environment of the    *)
(* process.  std is the standard UTC offset in seconds, dst the periods    *)
(* [from, to] (ordinals of the transition days, at 02:00 wall time) in     *)
(* which the offset is one hour more.                                      *)
(***************************************************************************)
ZoneUTC     == [name |-> "UTC", std |-> 0, dst |-> {}]
ZoneColombo == [name |-> "Asia/Colombo", std |-> 19800, dst |-> {}]
ZoneNewYork == [name |-> "America/New_York", std |-> -18000,
                dst |-> {<<Ymd2Ord(2023, 3, 12), Ymd2Ord(2023, 11, 5)>>,
                         <<Ymd2Ord(2024, 3, 10), Ymd2Ord(2024, 11, 3)>>}]
ZoneBerlin  == [name |-> "Europe/Berlin", std |-> 3600,
                dst |-> {<<Ymd2Ord(2023, 3, 26), Ymd2Ord(2023, 10, 29)>>,
                         <<Ymd2Ord(2024, 3, 31), Ymd2Ord(2024, 10, 27)>>}]

Zones == {ZoneUTC, ZoneColombo, ZoneNewYork, ZoneBerlin}

InDst(z, dt) ==
    \E p \in z.dst :
        /\ (dt.ord > p[1] \/ (dt.ord = p[1] /\ dt.sec >= 7200))
        /\ (dt.ord < p[2] \/ (dt.ord = p[2] /\ dt.sec < 7200))

UtcOffset(z, dt) == z.std + (IF InDst(z, dt) THEN 3600 ELSE 0)

\* dt.timestamp() of a naive datetime: dt read as local wall time of zone z
Timestamp(z, dt) ==
    (dt.ord - EpochOrd) * SecondsPerDay + dt.sec - UtcOffset(z, dt)

\* convert_date_to_epoch(date_str)
convert_date_to_epoch(z, date_str) == Timestamp(z, StrpTime(date_str))

(***************************************************************************)
(* The analytics API and the table.                                        *)
(***************************************************************************)
\* metric values the report can carry: decimal strings, as digit sequences
MetricValues == {<<1, 2>>}

\* outcomes of one call of fetch_sessions_for_date: authenticate_with_oauth
\* raises, run_report raises, or run_report returns response.rows
FetchErrors == {"auth_error", "api_error"}
FetchResponses == {[rows |-> <<>>]} \cup {[rows |-> <<v>>] : v \in MetricValues}

\* outcomes of insert(data).execute(): the row is stored and returned
\* (line 82), the response reports an error (an error status, line 78, or no
\* data, line 80), or the call raises (line 84); the row is in the table only
\* in the first case
InsertOutcomes == {"ok", "error", "exception"}

RECURSIVE ParseInt(_)
\* int(value) of a decimal string
ParseInt(digits) ==
    IF digits = <<>> THEN 0
    ELSE ParseInt(SubSeq(digits, 1, Len(digits) - 1)) * 10 + digits[Len(digits)]

\* a slip: a report without rows yields a sentinel instead of 0
fetch_sessions_for_date_NoDefault(response) ==
    IF response.rows # <<>> THEN ParseInt(response.rows[1]) ELSE -1

\* the value fetch_sessions_for_date returns for a response of run_report
fetch_sessions_for_date(response) ==
    IF response.rows # <<>> THEN ParseInt(response.rows[1]) ELSE 0

\* an insert that replaces the stored row of the same start_epoch (an upsert)
store_session_data_in_db_Upsert(t, sess, start_epoch, end_epoch, outcome) ==
    LET row  == [sessions |-> sess, start_epoch |-> start_epoch,
                 end_epoch |-> end_epoch]
        same == {i \in 1..Len(t) : t[i].start_epoch = start_epoch}
    IN  IF outcome # "ok" THEN t
        ELSE IF same = {} THEN Append(t, row)
        ELSE [i \in 1..Len(t) |-> IF i \in same THEN row ELSE t[i]]

\* an insert guarded by a uniqueness check on start_epoch
store_session_data_in_db_Unique(t, sess, start_epoch, end_epoch, outcome) ==
    IF outcome = "ok" /\ \A i \in 1..Len(t) : t[i].start_epoch # start_epoch
    THEN Append(t, [sessions |-> sess, start_epoch |-> start_epoch,
                    end_epoch |-> end_epoch])
    ELSE t

\* the table after store_session_data_in_db(sessions, start_epoch, end_epoch)
store_session_data_in_db(t, sess, start_epoch, end_epoch, outcome) ==
    IF outcome = "ok"
    THEN Append(t, [sessions |-> sess, start_epoch |-> start_epoch,
                    end_epoch |-> end_epoch])
    ELSE t

\* the query ordered ascending: the oldest end_epoch instead of the newest
SelectLastEndEpoch_Oldest(t) ==
    IF t = <<>> THEN <<>>
    ELSE LET es == {t[i].end_epoch : i \in 1..Len(t)}
         IN  <<[end_epoch |-> CHOOSE e \in es : \A f \in es : e <= f]>>

\* select("end_epoch").order("end_epoch", desc=True).limit(1): response.data
SelectLastEndEpoch(t) ==
    IF t = <<>> THEN <<>>
    ELSE LET es == {t[i].end_epoch : i \in 1..Len(t)}
         IN  <<[end_epoch |-> CHOOSE e \in es : \A f \in es : f <= e]>>

\* a read whose exception is not turned into None: the last row's date is
\* produced as if the query had answered
get_last_stored_date_IgnoreError(t, read_ok) ==
    IF SelectLastEndEpoch(t) # <<>>
    THEN StrfTime(FromTimestampUtc(SelectLastEndEpoch(t)[1].end_epoch))
    ELSE None

\* get_last_stored_date(): read_ok is FALSE when the query raises
get_last_stored_date(t, read_ok) ==
    IF ~read_ok THEN None
    ELSE LET data == SelectLastEndEpoch(t)
         IN  IF data # <<>>
             THEN StrfTime(FromTimestampUtc(data[1].end_epoch))
             ELSE None

\* the hardcoded first day of the timeline
DefaultStart == DateStr(2023, 1, 1)

\* a slip: the day after is taken of the default start as well
StartDate_AlwaysNextDay(last) ==
    PlusDays(StrpTime(IF last # None THEN last ELSE DefaultStart), 1)

\* a slip: the run starts at the last stored day itself
StartDate_SameDay(last) ==
    IF last # None THEN StrpTime(last) ELSE StrpTime(DefaultStart)

\* start_date_dt of fetch_and_store_data
StartDate(last) ==
    IF last # None THEN PlusDays(StrpTime(last), 1) ELSE StrpTime(DefaultStart)

\* end_date_dt of fetch_and_store_data: utcnow() - timedelta(days=1)
EndDate(clock) == PlusDays(FromTimestampUtc(clock), -1)

\* a slip: the window runs through today instead of yesterday
LoopCond_ThroughToday(cur, end) == cur.ord <= end.ord + 1

\* the loop condition: current_date <= end_date_dt
LoopCond(cur, end) == DtLeq(cur, end)

\* start_epoch and end_epoch of the row for current_date
StartEpoch(z, cur) == Timestamp(z, cur)
EndEpoch(z, cur) == Timestamp(z, PlusDays(cur, 1)) - 1

(***************************************************************************)
(* State.                                                                  *)
(***************************************************************************)
ProcIds == {1, 2}

VARIABLES
    zone,              \* the host's time zone (TZ of the process)
    now,               \* the clock, epoch seconds
    ticks,             \* steps the clock has taken
    runs,              \* runs of the entry point started
    fetches,           \* calls of fetch_sessions_for_date made
    table,             \* sessions_from_analytics, in insertion order
    logfile,           \* lines appended to logfile.log
    pc,                \* position of each process
    last_stored_date,  \* fetch_and_store_data's locals, per process
    start_date_dt,
    end_date_dt,
    current_date,
    sessions,
    days,              \* history: formatted_date of the iteration that stored each row
    trace,             \* history: the calls of each process's current run
    snap,              \* history: what each process's run read at line 102
    prev,              \* history: the last run that completed
    all_clean,         \* history: no read, fetch or insert has failed so far
    read_failed,       \* history: a last-date read has failed
    gaps,              \* history: days whose insert failed before a later insert
                       \* of the same run succeeded
    from_empty         \* history: the table was empty initially

vars == <<zone, now, ticks, runs, fetches, table, logfile, pc, last_stored_date,
          start_date_dt, end_date_dt, current_date, sessions, days, trace,
          snap, prev, all_clean, read_failed, gaps, from_empty>>

NoDt == [ord |-> 0, sec |-> 0]
NoSnap == [read_ok |-> FALSE, table |-> <<>>, today |-> 0, gaps |-> {}]

\* an epoch of the clock: h hours into the UTC day y-m-d
ClockAt(y, m, d, h) == (Ymd2Ord(y, m, d) - EpochOrd) * SecondsPerDay + h * 3600

\* the row the Writer stores for the day date_str under zone z
RowFor(z, date_str, sess) ==
    [sessions |-> sess,
     start_epoch |-> StartEpoch(z, StrpTime(date_str)),
     end_epoch |-> EndEpoch(z, StrpTime(date_str))]

\* the tables and clocks the model starts from: an empty table on the first
\* days of the timeline, and a table whose newest row an earlier run stored
InitialCases ==
    { [last |-> None, clock |-> ClockAt(2023, 1, 1, 12)],
      [last |-> DateStr(2024, 1, 5), clock |-> ClockAt(2024, 1, 7, 0)],
      [last |-> DateStr(2023, 3, 24), clock |-> ClockAt(2023, 3, 25, 12)] }

Init ==
    /\ zone \in Zones
    /\ \E c \in InitialCases :
        /\ now = c.clock
        /\ table = IF c.last = None THEN <<>> ELSE <<RowFor(zone, c.last, 12)>>
        /\ days = IF c.last = None THEN <<>> ELSE <<c.last>>
        /\ from_empty = (c.last = None)
    /\ ticks = 0
    /\ runs = 0
    /\ fetches = 0
    /\ logfile = 0
    /\ pc = [p \in ProcIds |-> "idle"]
    /\ last_stored_date = [p \in ProcIds |-> None]
    /\ start_date_dt = [p \in ProcIds |-> NoDt]
    /\ end_date_dt = [p \in ProcIds |-> NoDt]
    /\ current_date = [p \in ProcIds |-> NoDt]
    /\ sessions = [p \in ProcIds |-> 0]
    /\ trace = [p \in ProcIds |-> <<>>]
    /\ snap = [p \in ProcIds |-> NoSnap]
    /\ prev = [clean |-> FALSE, today |-> 0, inserted |-> 0, abort |-> None,
               trailing |-> None]
    /\ all_clean = TRUE
    /\ read_failed = FALSE
    /\ gaps = {}

(***************************************************************************)
(* Actions.                                                                *)
(***************************************************************************)
\* the calls a run makes, as the history records them: the report query for
\* DateRange(start_date = date, end_date = until) and the insert of a row
FetchEvent(date_str, res, sess) ==
    [op |-> "fetch", date |-> date_str, until |-> date_str, res |-> res,
     sessions |-> sess, start_epoch |-> 0, end_epoch |-> 0]
InsertEvent(date_str, res, sess, s, e) ==
    [op |-> "insert", date |-> date_str, until |-> date_str, res |-> res,
     sessions |-> sess, start_epoch |-> s, end_epoch |-> e]

\* where the loop goes from its test at line 111
AfterLoopTest(cur, end) == IF LoopCond(cur, end) THEN "fetch" ELSE "log"

\* where control goes when the call at line 115 raises: out of the loop to
\* the handler at lines 126-127, then back to the entry point's log append
\* a slip: the failed call is made again
AfterFetchError_Retry(cur, end) == "fetch"
\* a slip: nothing catches the exception and the process ends there
AfterFetchError_Uncaught(cur, end) == "idle"
AfterFetchError(cur, end) == "log"

\* where control goes after store_session_data_in_db returns: the function
\* swallows every failure (lines 83-84), so always on to line 124 and the test
\* a slip: an exception of the insert leaves the loop
AfterStore_Propagates(outcome, next, end) ==
    IF outcome = "exception" THEN "log" ELSE AfterLoopTest(next, end)
AfterStore(outcome, next, end) == AfterLoopTest(next, end)

\* the environment moves the clock while no run is in progress
Tick ==
    /\ ticks < MaxTicks
    /\ \A p \in ProcIds : pc[p] = "idle"
    /\ now' = now + TickStep
    /\ ticks' = ticks + 1
    /\ UNCHANGED <<zone, runs, fetches, table, logfile, pc, last_stored_date,
                   start_date_dt, end_date_dt, current_date, sessions, days,
                   trace, snap, prev, all_clean, read_failed, gaps, from_empty>>

\* the entry point is started (lines 129-131)
Main(p) ==
    /\ pc[p] = "idle"
    /\ runs < MaxRuns
    /\ runs' = runs + 1
    /\ pc' = [pc EXCEPT ![p] = "resolve"]
    /\ trace' = [trace EXCEPT ![p] = <<>>]
    /\ snap' = [snap EXCEPT ![p] = NoSnap]
    /\ UNCHANGED <<zone, now, ticks, fetches, table, logfile, last_stored_date,
                   start_date_dt, end_date_dt, current_date, sessions, days,
                   prev, all_clean, read_failed, gaps, from_empty>>

\* lines 102-111: read the last stored date, resolve the window, test the loop
Resolve(p) ==
    /\ pc[p] = "resolve"
    /\ \E read_ok \in BOOLEAN :
        LET last  == get_last_stored_date(table, read_ok)
            start == StartDate(last)
            end   == EndDate(now)
        IN  /\ last_stored_date' = [last_stored_date EXCEPT ![p] = last]
            /\ start_date_dt' = [start_date_dt EXCEPT ![p] = start]
            /\ end_date_dt' = [end_date_dt EXCEPT ![p] = end]
            /\ current_date' = [current_date EXCEPT ![p] = start]
            /\ pc' = [pc EXCEPT ![p] = AfterLoopTest(start, end)]
            /\ snap' = [snap EXCEPT ![p] =
                            [read_ok |-> read_ok, table |-> table,
                             today |-> FromTimestampUtc(now).ord,
                             gaps |-> gaps]]
            /\ all_clean' = (all_clean /\ read_ok)
            /\ read_failed' = (read_failed \/ ~read_ok)
    /\ UNCHANGED <<zone, now, ticks, runs, fetches, table, logfile, sessions, days,
                   trace, prev, gaps, from_empty>>

\* line 115, the call raises: the exception leaves the loop and is caught at
\* line 126; fetch_and_store_data returns
FetchFails(p) ==
    /\ pc[p] = "fetch"
    /\ fetches < MaxFetches
    /\ fetches' = fetches + 1
    /\ \E err \in FetchErrors :
        trace' = [trace EXCEPT ![p] =
                     Append(@, FetchEvent(StrfTime(current_date[p]), err, 0))]
    /\ pc' = [pc EXCEPT ![p] = AfterFetchError(current_date[p], end_date_dt[p])]
    /\ all_clean' = FALSE
    /\ UNCHANGED <<zone, now, ticks, runs, table, logfile, last_stored_date,
                   start_date_dt, end_date_dt, current_date, sessions, days,
                   snap, prev, read_failed, gaps, from_empty>>

\* line 115, the call returns
FetchReturns(p) ==
    /\ pc[p] = "fetch"
    /\ fetches < MaxFetches
    /\ fetches' = fetches + 1
    /\ \E response \in FetchResponses :
        LET n == fetch_sessions_for_date(response)
        IN  /\ sessions' = [sessions EXCEPT ![p] = n]
            /\ trace' = [trace EXCEPT ![p] =
                            Append(@, FetchEvent(StrfTime(current_date[p]),
                                   IF response.rows = <<>> THEN "empty" ELSE "rows", n))]
    /\ pc' = [pc EXCEPT ![p] = "store"]
    /\ UNCHANGED <<zone, now, ticks, runs, table, logfile, last_stored_date,
                   start_date_dt, end_date_dt, current_date, days, snap, prev,
                   all_clean, read_failed, gaps, from_empty>>

\* a loop that advances its cursor by two days
NextCurrent_Skip(cur) == PlusDays(cur, 2)

\* line 124: current_date += timedelta(days=1)
NextCurrent(cur) == PlusDays(cur, 1)

\* lines 118-124 and the loop test at line 111
Store(p) ==
    /\ pc[p] = "store"
    /\ \E outcome \in InsertOutcomes :
        LET start_epoch == StartEpoch(zone, current_date[p])
            end_epoch   == EndEpoch(zone, current_date[p])
            date_str    == StrfTime(current_date[p])
            next        == NextCurrent(current_date[p])
        IN  /\ table' = store_session_data_in_db(table, sessions[p], start_epoch,
                                                 end_epoch, outcome)
            /\ days' = IF Len(table') > Len(table) THEN Append(days, date_str) ELSE days
            /\ trace' = [trace EXCEPT ![p] =
                            Append(@, InsertEvent(date_str, outcome, sessions[p],
                                                  start_epoch, end_epoch))]
            /\ all_clean' = (all_clean /\ outcome = "ok")
            /\ gaps' = IF outcome = "ok"
                       THEN gaps \cup {trace[p][i].date : i \in
                                {j \in 1..Len(trace[p]) :
                                    /\ trace[p][j].op = "insert"
                                    /\ trace[p][j].res # "ok"}}
                       ELSE gaps
            /\ current_date' = [current_date EXCEPT ![p] = next]
            /\ pc' = [pc EXCEPT ![p] = AfterStore(outcome, next, end_date_dt[p])]
    /\ UNCHANGED <<zone, now, ticks, runs, fetches, logfile, last_stored_date,
                   start_date_dt, end_date_dt, sessions, snap, prev, read_failed,
                   from_empty>>

\* the calls of a run were all successful
RunClean(p) ==
    /\ snap[p].read_ok
    /\ \A i \in 1..Len(trace[p]) : trace[p][i].res \in {"ok", "empty", "rows"}

\* the day on which the run was ended by a failed fetch, its read and every
\* insert before having succeeded (None otherwise)
RunAbortDay(p) ==
    LET t == trace[p]
    IN  IF /\ t # <<>>
           /\ t[Len(t)].op = "fetch" /\ t[Len(t)].res \in FetchErrors
           /\ snap[p].read_ok
           /\ \A i \in 1..Len(t) : t[i].op = "insert" => t[i].res = "ok"
        THEN t[Len(t)].date
        ELSE None

\* the first day of the run's trailing storage failures: the inserts failed
\* for every day from it through the end of the window (None when the run's
\* last insert succeeded, a fetch failed or no call was made)
RunTrailingDay(p) ==
    LET t == trace[p]
        failing == {i \in 1..Len(t) :
                       /\ t[i].op = "insert"
                       /\ \A j \in i..Len(t) : t[j].op = "insert" => t[j].res # "ok"}
    IN  IF /\ t # <<>>
           /\ t[Len(t)].op = "insert" /\ t[Len(t)].res # "ok"
           /\ \A i \in 1..Len(t) : t[i].res \notin FetchErrors
        THEN t[CHOOSE i \in failing : \A j \in failing : i <= j].date
        ELSE None

\* lines 133-134, open() and write() succeed: the execution line is appended
\* to the log file and the process ends; the history of the run is summarised
\* in prev
LogExecution(p) ==
    /\ pc[p] = "log"
    /\ logfile' = logfile + 1
    /\ prev' = [clean |-> RunClean(p), today |-> snap[p].today,
                inserted |-> Len(table) - Len(snap[p].table),
                abort |-> RunAbortDay(p), trailing |-> RunTrailingDay(p)]
    /\ trace' = [trace EXCEPT ![p] = <<>>]
    /\ snap' = [snap EXCEPT ![p] = NoSnap]
    /\ pc' = [pc EXCEPT ![p] = "idle"]
    /\ last_stored_date' = [last_stored_date EXCEPT ![p] = None]
    /\ start_date_dt' = [start_date_dt EXCEPT ![p] = NoDt]
    /\ end_date_dt' = [end_date_dt EXCEPT ![p] = NoDt]
    /\ current_date' = [current_date EXCEPT ![p] = NoDt]
    /\ sessions' = [sessions EXCEPT ![p] = 0]
    /\ UNCHANGED <<zone, now, ticks, runs, fetches, table, days, all_clean,
                   read_failed, gaps, from_empty>>

\* lines 133-134, open() or write() raises (the directory of the hard-coded
\* path is missing, no permission, disk full): no line is appended, nothing
\* catches the exception and the process ends with it
LogFails(p) ==
    /\ pc[p] = "log"
    /\ logfile' = logfile
    /\ prev' = [clean |-> RunClean(p), today |-> snap[p].today,
                inserted |-> Len(table) - Len(snap[p].table),
                abort |-> RunAbortDay(p), trailing |-> RunTrailingDay(p)]
    /\ trace' = [trace EXCEPT ![p] = <<>>]
    /\ snap' = [snap EXCEPT ![p] = NoSnap]
    /\ pc' = [pc EXCEPT ![p] = "idle"]
    /\ last_stored_date' = [last_stored_date EXCEPT ![p] = None]
    /\ start_date_dt' = [start_date_dt EXCEPT ![p] = NoDt]
    /\ end_date_dt' = [end_date_dt EXCEPT ![p] = NoDt]
    /\ current_date' = [current_date EXCEPT ![p] = NoDt]
    /\ sessions' = [sessions EXCEPT ![p] = 0]
    /\ UNCHANGED <<zone, now, ticks, runs, fetches, table, days, all_clean,
                   read_failed, gaps, from_empty>>

Step(p) ==
    \/ Main(p)
    \/ Resolve(p)
    \/ FetchFails(p)
    \/ FetchReturns(p)
    \/ Store(p)
    \/ LogExecution(p)
    \/ LogFails(p)

\* runs one after the other: a single process
Next == Tick \/ Step(1)

Spec == Init /\ [][Next]_vars


\* the invocations of one instance, the clock standing still, under a
\* scheduler that keeps running a process that can take a step
NextRun == Step(1)

SpecFair == Init /\ [][NextRun]_vars /\ WF_vars(Step(1))

\* two instances of the script overlapping (two cron firings, two hosts): both
\* sample the clock at the same instant, the passing of time between runs
\* being the subject of Spec
NextConc == Step(1) \/ Step(2)

SpecConc == Init /\ [][NextConc]_vars

(***************************************************************************)
(* Vocabulary of the properties.                                           *)
(***************************************************************************)
\* process p has resolved its window and not yet ended its run
Resolved(p) == pc[p] \in {"fetch", "store", "log"}

AllIdle == \A p \in ProcIds : pc[p] = "idle"

\* the epoch of 00:00:00 UTC of a calendar day
UtcDayStart(date_str) ==
    (Ymd2Ord(date_str.y, date_str.m, date_str.d) - EpochOrd) * SecondsPerDay

\* the calendar day after date_str
NextDay(date_str) == Ord2Ymd(Ymd2Ord(date_str.y, date_str.m, date_str.d) + 1)

\* an index of a row of t with the maximum end_epoch
MaxRowIndex(t) ==
    CHOOSE i \in 1..Len(t) : \A j \in 1..Len(t) : t[j].end_epoch <= t[i].end_epoch

\* the day for which the newest row of the table read by p's run was stored
NewestStoredDay(p) == days[MaxRowIndex(snap[p].table)]

\* day date_str is within the window of p's run
InWindow(p, date_str) == DtLeq(StrpTime(date_str), end_date_dt[p])

IsFetch(e) == e.op = "fetch"
IsInsert(e) == e.op = "insert"
FetchFailed(e) == e.op = "fetch" /\ e.res \in FetchErrors
FetchReturned(e) == e.op = "fetch" /\ e.res \notin FetchErrors
InsertFailed(e) == e.op = "insert" /\ e.res # "ok"

(***************************************************************************)
(* C1.  After non-overlapping runs from an empty table that all completed  *)
(* without a read, fetch or storage error, the stored ranges are pairwise  *)
(* disjoint, each record starts one second after the one before it ends,   *)
(* and the records stand for the days 2023-01-01, 2023-01-02, ... through  *)
(* the last synced day, each exactly once.                                 *)
(***************************************************************************)
C1_ContiguousTimeline ==
    (from_empty /\ all_clean /\ AllIdle) =>
        /\ \A i, j \in 1..Len(table) :
              i # j => \/ table[i].end_epoch < table[j].start_epoch
                       \/ table[j].end_epoch < table[i].start_epoch
        /\ \A i \in 1..(Len(table) - 1) :
              table[i + 1].start_epoch = table[i].end_epoch + 1
        /\ \A i \in 1..Len(days) :
              StrpTime(days[i]).ord = StrpTime(DefaultStart).ord + (i - 1)

(***************************************************************************)
(* C2.  Round trip Writer -> Window Resolver: when the newest row of the   *)
(* table a run reads is the row stored for day D, get_last_stored_date     *)
(* returns D and the run's start date is D+1.                              *)
(***************************************************************************)
C2_RoundTrip ==
    \A p \in ProcIds :
        (Resolved(p) /\ snap[p].read_ok /\ snap[p].table # <<>>) =>
            /\ last_stored_date[p] = NewestStoredDay(p)
            /\ start_date_dt[p] = StrpTime(NextDay(NewestStoredDay(p)))

(***************************************************************************)
(* C3.  Every row a run passes to the Writer for day D has start_epoch =   *)
(* D 00:00:00 UTC and end_epoch = D 23:59:59 UTC; and when the newest      *)
(* end_epoch read is 2024-01-05 23:59:59 UTC and yesterday is 2024-01-07,  *)
(* the first cycle is the fetch and store of 2024-01-06 with the range     *)
(* [2024-01-06T00:00:00Z, 2024-01-06T23:59:59Z], performed once.           *)
(***************************************************************************)
C3_UtcDayRange ==
    \A p \in ProcIds :
        /\ \A i \in 1..Len(trace[p]) :
              IsInsert(trace[p][i]) =>
                  /\ trace[p][i].start_epoch = UtcDayStart(trace[p][i].date)
                  /\ trace[p][i].end_epoch =
                         UtcDayStart(trace[p][i].date) + SecondsPerDay - 1
        /\ ( /\ Resolved(p) /\ snap[p].read_ok /\ snap[p].table # <<>>
             /\ snap[p].table[MaxRowIndex(snap[p].table)].end_epoch
                    = UtcDayStart(DateStr(2024, 1, 6)) - 1
             /\ end_date_dt[p].ord = Ymd2Ord(2024, 1, 7) )
           => /\ current_date[p].ord >= Ymd2Ord(2024, 1, 6)
              /\ pc[p] = "fetch" \/ trace[p] # <<>>
              /\ trace[p] # <<>> =>
                    /\ IsFetch(trace[p][1])
                    /\ trace[p][1].date = DateStr(2024, 1, 6)
              /\ Len(trace[p]) >= 2 =>
                    /\ IsInsert(trace[p][2])
                    /\ trace[p][2].date = DateStr(2024, 1, 6)
                    /\ trace[p][2].start_epoch = UtcDayStart(DateStr(2024, 1, 6))
                    /\ trace[p][2].end_epoch = UtcDayStart(DateStr(2024, 1, 7)) - 1
              /\ Cardinality({i \in 1..Len(trace[p]) :
                                 IsFetch(trace[p][i])
                                 /\ trace[p][i].date = DateStr(2024, 1, 6)}) <= 1
              /\ Cardinality({i \in 1..Len(trace[p]) :
                                 IsInsert(trace[p][i])
                                 /\ trace[p][i].date = DateStr(2024, 1, 6)}) <= 1

(***************************************************************************)
(* C4.  A run that reads an empty table gets None from                     *)
(* get_last_stored_date, starts at 2023-01-01, and the first day it        *)
(* fetches, if it fetches any, is 2023-01-01.                              *)
(***************************************************************************)
C4_EmptyTableDefault ==
    \A p \in ProcIds :
        (Resolved(p) /\ snap[p].read_ok /\ snap[p].table = <<>>) =>
            /\ last_stored_date[p] = None
            /\ start_date_dt[p] = [ord |-> Ymd2Ord(2023, 1, 1), sec |-> 0]
            /\ pc[p] = "fetch" => StrfTime(current_date[p]) = DateStr(2023, 1, 1)
                                    \/ trace[p] # <<>>
            /\ trace[p] # <<>> =>
                  /\ IsFetch(trace[p][1])
                  /\ trace[p][1].date = DateStr(2023, 1, 1)

\* a run that read an empty table has fetched its first day, 2023-01-01
C4_Witness ==
    \E p \in ProcIds :
        /\ Resolved(p) /\ snap[p].read_ok /\ snap[p].table = <<>>
        /\ last_stored_date[p] = None
        /\ trace[p] # <<>>
        /\ trace[p][1].date = DateStr(2023, 1, 1)

(***************************************************************************)
(* C5.  A run whose start date is later than its end date makes no fetch   *)
(* call and no insert call and leaves the table as it read it; so does a   *)
(* run that follows a fully successful run on the same UTC day (and reads  *)
(* the last date successfully).                                            *)
(***************************************************************************)
C5_EmptyWindow ==
    \A p \in ProcIds :
        /\ (Resolved(p) /\ ~DtLeq(start_date_dt[p], end_date_dt[p])) =>
              /\ trace[p] = <<>>
              /\ pc[p] = "log"
              /\ table = snap[p].table
        /\ (Resolved(p) /\ snap[p].read_ok /\ prev.clean
                /\ prev.today = snap[p].today) =>
              /\ trace[p] = <<>>
              /\ table = snap[p].table

\* a run on a non-empty table found its window empty right after a fully
\* successful run of the same day that had inserted rows
C5_Witness ==
    \E p \in ProcIds :
        /\ pc[p] = "log" /\ snap[p].read_ok
        /\ ~DtLeq(start_date_dt[p], end_date_dt[p])
        /\ prev.clean /\ prev.today = snap[p].today /\ prev.inserted > 0
        /\ trace[p] = <<>>

(***************************************************************************)
(* C6.  Every row passed to store_session_data_in_db has                   *)
(* end_epoch = start_epoch + 86400 - 1.                                    *)
(***************************************************************************)
C6_DayLength ==
    \A p \in ProcIds :
        \A i \in 1..Len(trace[p]) :
            IsInsert(trace[p][i]) =>
                trace[p][i].end_epoch = trace[p][i].start_epoch + 86400 - 1

(***************************************************************************)
(* C7.  A storage failure never ends the loop: when the insert for day N   *)
(* fails (an exception or a reported error) and day N+1 is within the      *)
(* window, the run goes on to the fetch of day N+1, and makes the insert   *)
(* call for N+1 once that fetch has returned.                              *)
(***************************************************************************)
C7_StorageFailureContinues ==
    \A p \in ProcIds :
        \A i \in 1..Len(trace[p]) :
            (InsertFailed(trace[p][i]) /\ InWindow(p, NextDay(trace[p][i].date))) =>
                /\ i = Len(trace[p]) =>
                      /\ pc[p] = "fetch"
                      /\ StrfTime(current_date[p]) = NextDay(trace[p][i].date)
                /\ i < Len(trace[p]) =>
                      /\ IsFetch(trace[p][i + 1])
                      /\ trace[p][i + 1].date = NextDay(trace[p][i].date)
                      /\ (FetchReturned(trace[p][i + 1]) /\ i + 1 = Len(trace[p])) =>
                            pc[p] = "store"
                      /\ (FetchReturned(trace[p][i + 1]) /\ i + 1 < Len(trace[p])) =>
                            /\ IsInsert(trace[p][i + 2])
                            /\ trace[p][i + 2].date = NextDay(trace[p][i].date)

\* the insert for day N raised and the same run fetched day N+1 and made the
\* insert call for it
C7_Witness ==
    \E p \in ProcIds :
        \E i \in 1..Len(trace[p]) :
            /\ IsInsert(trace[p][i]) /\ trace[p][i].res = "exception"
            /\ i + 2 <= Len(trace[p])
            /\ IsFetch(trace[p][i + 1])
            /\ IsInsert(trace[p][i + 2])
            /\ trace[p][i + 2].date = NextDay(trace[p][i].date)

(***************************************************************************)
(* C8.  When the report for a day has no rows, fetch_sessions_for_date     *)
(* returns 0 (it does not raise), the run makes the insert call for that   *)
(* day with sessions = 0 (the row is in the table when the insert          *)
(* succeeds), and goes on with the next day.                               *)
(***************************************************************************)
C8_EmptyReportIsZero ==
    \A p \in ProcIds :
        \A i \in 1..Len(trace[p]) :
            (IsFetch(trace[p][i]) /\ trace[p][i].res = "empty") =>
                /\ trace[p][i].sessions = 0
                /\ i = Len(trace[p]) => (pc[p] = "store" /\ sessions[p] = 0)
                /\ i < Len(trace[p]) =>
                      LET ins == trace[p][i + 1]
                      IN  /\ IsInsert(ins)
                          /\ ins.date = trace[p][i].date
                          /\ ins.sessions = 0
                          /\ ins.res = "ok" =>
                                \E k \in 1..Len(table) :
                                    /\ table[k] = [sessions |-> 0,
                                                   start_epoch |-> ins.start_epoch,
                                                   end_epoch |-> ins.end_epoch]
                                    /\ days[k] = ins.date
                          /\ i + 1 = Len(trace[p]) =>
                                /\ StrfTime(current_date[p]) = NextDay(ins.date)
                                /\ pc[p] = AfterLoopTest(current_date[p], end_date_dt[p])
                          /\ i + 1 < Len(trace[p]) =>
                                /\ IsFetch(trace[p][i + 2])
                                /\ trace[p][i + 2].date = NextDay(ins.date)

\* a day's report was empty, its row was stored with sessions = 0, and the
\* run fetched the next day
C8_Witness ==
    \E p \in ProcIds :
        \E i \in 1..Len(trace[p]) :
            /\ IsFetch(trace[p][i]) /\ trace[p][i].res = "empty"
            /\ i + 2 <= Len(trace[p])
            /\ trace[p][i + 1].res = "ok" /\ trace[p][i + 1].sessions = 0
            /\ IsFetch(trace[p][i + 2])
            /\ \E k \in 1..Len(table) :
                  table[k].sessions = 0 /\ days[k] = trace[p][i].date

(***************************************************************************)
(* C9.  When the fetch for day N fails, the run makes no insert call for   *)
(* day N and no further fetch or insert call at all; the rows it inserted  *)
(* before are in the table.                                                *)
(***************************************************************************)
C9_FetchFailureEndsRun ==
    \A p \in ProcIds :
        \A i \in 1..Len(trace[p]) :
            FetchFailed(trace[p][i]) =>
                /\ i = Len(trace[p])
                /\ pc[p] = "log"
                /\ \A j \in 1..Len(trace[p]) :
                      IsInsert(trace[p][j]) => trace[p][j].date # trace[p][i].date
                /\ \A j \in 1..(i - 1) :
                      (IsInsert(trace[p][j]) /\ trace[p][j].res = "ok") =>
                          \E k \in (Len(snap[p].table) + 1)..Len(table) :
                              /\ table[k].start_epoch = trace[p][j].start_epoch
                              /\ table[k].end_epoch = trace[p][j].end_epoch
                              /\ table[k].sessions = trace[p][j].sessions
                              /\ days[k] = trace[p][j].date

\* the fetch of the second day of a run failed after the first day's row had
\* been inserted
C9_Witness ==
    \E p \in ProcIds :
        /\ Len(trace[p]) = 3
        /\ trace[p][2].res = "ok"
        /\ FetchFailed(trace[p][3])
        /\ pc[p] = "log"
        /\ Len(table) = Len(snap[p].table) + 1

(***************************************************************************)
(* C10.  As claimed: an authentication failure is caught nowhere and ends  *)
(* the process, so the run never gets to the append of the execution line. *)
(***************************************************************************)
AuthFailed(p) ==
    \E i \in 1..Len(trace[p]) : trace[p][i].res = "auth_error"

C10_AuthFailureEndsProcess ==
    \A p \in ProcIds : AuthFailed(p) => pc[p] # "log"

(***************************************************************************)
(* C10, amended.  An authentication failure is caught by the handler of    *)
(* fetch_and_store_data (line 126): it ends the day loop, no further       *)
(* fetch or insert call is made, and the run goes on to the append of the  *)
(* execution line.                                                         *)
(***************************************************************************)
C10_AuthFailureCaught ==
    \A p \in ProcIds :
        AuthFailed(p) =>
            /\ trace[p][Len(trace[p])].res = "auth_error"
            /\ pc[p] = "log"

\* authenticate_with_oauth raised on the second day of a run and the run is
\* at the append of the execution line
C10_Witness ==
    \E p \in ProcIds :
        /\ Len(trace[p]) = 3
        /\ trace[p][3].res = "auth_error"
        /\ pc[p] = "log"


----------------------------------------------------------------------------
\* C11: the table is append-only. Every step of every instance leaves the rows
\* already stored unchanged and in place: the table before the step is a
\* prefix of the table after it, so the multiset of rows only grows. No row
\* is updated or deleted, whether the step is a read, a fetch, an insert that
\* succeeds or fails, or the log append.
C11_AppendOnly ==
    [][/\ Len(table') >= Len(table)
       /\ SubSeq(table', 1, Len(table)) = table
       /\ Len(table') <= Len(table) + 1]_vars

\* a run that found rows in the table has had an insert fail and has then
\* appended a row, the rows it found still being the first rows of the table
C11_Witness ==
    \E p \in ProcIds :
        /\ Resolved(p)
        /\ snap[p].table # <<>>
        /\ Len(table) > Len(snap[p].table)
        /\ SubSeq(table, 1, Len(snap[p].table)) = snap[p].table
        /\ \E i \in 1..Len(trace[p]) : InsertFailed(trace[p][i])
        /\ trace[p][Len(trace[p])].op = "insert"
        /\ trace[p][Len(trace[p])].res = "ok"


----------------------------------------------------------------------------
\* the calendar day before the UTC date at which p's run resolved its window
Yesterday(p) == Ord2Ymd(snap[p].today - 1)

\* the table p's run read holds a row stored for day date_str
StoredAtRead(p, date_str) ==
    \E k \in 1..Len(snap[p].table) : days[k] = date_str

\* p's run has ended, every fetch call of it having returned
EndedWithoutFetchFailure(p) ==
    /\ pc[p] = "log"
    /\ \A i \in 1..Len(trace[p]) : ~FetchFailed(trace[p][i])

\* C12: no run fetches or stores for the current UTC day or a later one:
\* every day a run processes is at most the day before the UTC date at which
\* the run resolved its window. And yesterday itself is processed when it is
\* not yet stored: a run that ends with every fetch having returned, on a
\* table without a row for yesterday (a day of the timeline, i.e. not before
\* 2023-01-01), has fetched for yesterday.
C12_ThroughYesterday ==
    \A p \in ProcIds :
        /\ Resolved(p) =>
              \A i \in 1..Len(trace[p]) :
                  Ymd2Ord(trace[p][i].date.y, trace[p][i].date.m,
                          trace[p][i].date.d) <= snap[p].today - 1
        /\ (/\ EndedWithoutFetchFailure(p)
            /\ snap[p].today - 1 >= StrpTime(DefaultStart).ord
            /\ ~StoredAtRead(p, Yesterday(p))) =>
              \E i \in 1..Len(trace[p]) :
                  IsFetch(trace[p][i]) /\ trace[p][i].date = Yesterday(p)


----------------------------------------------------------------------------
\* the invocations that have returned
Completed == runs - Cardinality({p \in ProcIds : pc[p] # "idle"})

\* the days left in the window of p's run
DaysLeft(p) == end_date_dt[p].ord - current_date[p].ord + 1

InLoop(p) == pc[p] \in {"fetch", "store"}

\* C13: every invocation terminates its day loop and appends exactly one line
\* to the log file on completion of fetch_and_store_data, including when the
\* run ended early (a fetch failed, the read or the storage raised). The log
\* file holds one line per completed invocation; inside the loop the cursor is
\* within the finite window resolved before the loop, the window does not
\* move and every pass of the loop leaves one day less; and an invocation
\* that has started returns (or stands at a fetch the model's budget of fetch
\* calls no longer answers).
C13_TerminatesAndLogsOnce ==
    /\ [](/\ logfile = Completed
          /\ \A p \in ProcIds : InLoop(p) => DaysLeft(p) >= 1)
    /\ [][\A p \in ProcIds :
            /\ (pc[p] = "log" /\ pc'[p] = "idle") => logfile' = logfile + 1
            /\ (InLoop(p) /\ InLoop(p)') =>
                  /\ end_date_dt'[p] = end_date_dt[p]
                  /\ DaysLeft(p)' <= DaysLeft(p)
            /\ (pc[p] = "store" /\ pc'[p] # "store") =>
                  DaysLeft(p)' = DaysLeft(p) - 1]_vars
    /\ \A p \in {1} :
          (pc[p] = "resolve") ~>
              (pc[p] = "idle" \/ (pc[p] = "fetch" /\ fetches = MaxFetches))


----------------------------------------------------------------------------
\* the events of p's run for day date_str
EventsFor(p, date_str) == {i \in 1..Len(trace[p]) : trace[p][i].date = date_str}

\* C14: a gap is permanent. Let the insert for day N have failed in a run in
\* which the insert for a later day succeeded. Then no later run whose
\* last-date read succeeds fetches or stores for day N again; and, as long as
\* every read has succeeded, the table holds no row for day N.
C14_GapPermanent ==
    /\ \A p \in ProcIds :
          (Resolved(p) /\ snap[p].read_ok) =>
              \A N \in snap[p].gaps : EventsFor(p, N) = {}
    /\ ~read_failed =>
          \A N \in gaps : \A k \in 1..Len(days) : days[k] # N

\* a run whose read succeeded has fetched for a day while an earlier run has
\* left a gap: the table holds a row for a later day and none for the gap
C14_Witness ==
    \E p \in ProcIds :
        /\ Resolved(p) /\ snap[p].read_ok /\ ~read_failed
        /\ trace[p] # <<>>
        /\ \E N \in snap[p].gaps :
              /\ \A k \in 1..Len(days) : days[k] # N
              /\ \E k \in 1..Len(snap[p].table) :
                    Ymd2Ord(days[k].y, days[k].m, days[k].d) > Ymd2Ord(N.y, N.m, N.d)
              /\ Ymd2Ord(trace[p][1].date.y, trace[p][1].date.m, trace[p][1].date.d)
                    > Ymd2Ord(N.y, N.m, N.d)


----------------------------------------------------------------------------
\* the rows of the table stored for day date_str
RowsFor(date_str) == {k \in 1..Len(table) : days[k] = date_str}

\* C15: a read that raises is taken for an empty table. get_last_stored_date
\* returns None, the run starts from 2023-01-01 as a run on the empty table
\* does, and its first fetch is for 2023-01-01; every day for which the table
\* it found held a row and for which the run's insert succeeds has two rows
\* afterwards.
C15_ReadErrorRestarts ==
    \A p \in ProcIds :
        (Resolved(p) /\ ~snap[p].read_ok) =>
            /\ last_stored_date[p] = None
            /\ start_date_dt[p] = StartDate(get_last_stored_date(<<>>, TRUE))
            /\ start_date_dt[p] = StrpTime(DateStr(2023, 1, 1))
            /\ trace[p] # <<>> => trace[p][1].date = DateStr(2023, 1, 1)
            /\ \A i \in 1..Len(trace[p]) :
                  (/\ IsInsert(trace[p][i]) /\ trace[p][i].res = "ok"
                   /\ StoredAtRead(p, trace[p][i].date)) =>
                      Cardinality(RowsFor(trace[p][i].date)) >= 2

\* the read of a run raised on a table holding a row for 2023-01-01, the run
\* has inserted for 2023-01-01 and the table holds two rows for that day
C15_Witness ==
    \E p \in ProcIds :
        /\ Resolved(p) /\ ~snap[p].read_ok
        /\ snap[p].table # <<>>
        /\ StoredAtRead(p, DateStr(2023, 1, 1))
        /\ \E i \in 1..Len(trace[p]) :
              /\ IsInsert(trace[p][i]) /\ trace[p][i].res = "ok"
              /\ trace[p][i].date = DateStr(2023, 1, 1)
        /\ \E j, k \in 1..Len(table) :
              j # k /\ days[j] = days[k] /\ days[j] = DateStr(2023, 1, 1)


----------------------------------------------------------------------------
\* p's run has inserted a row for day date_str
Inserted(p, date_str) ==
    \E i \in 1..Len(trace[p]) :
        /\ IsInsert(trace[p][i]) /\ trace[p][i].res = "ok"
        /\ trace[p][i].date = date_str

\* the runs of p and q overlap and have read the same newest end_epoch
ReadSameLast(p, q) ==
    /\ p # q
    /\ Resolved(p) /\ Resolved(q)
    /\ snap[p].read_ok /\ snap[q].read_ok
    /\ SelectLastEndEpoch(snap[p].table) = SelectLastEndEpoch(snap[q].table)

\* C16: two instances running at the same time are not kept apart. Two
\* overlapping runs that read the same newest end_epoch resolve the same start
\* date, and nothing merges their inserts: a day for which both have inserted
\* has two rows in the table, with the same start_epoch.
C16_ConcurrentDuplicates ==
    \A p, q \in ProcIds :
        ReadSameLast(p, q) =>
            /\ start_date_dt[p] = start_date_dt[q]
            /\ \A i \in 1..Len(trace[p]) :
                  Inserted(p, trace[p][i].date) /\ Inserted(q, trace[p][i].date) =>
                      \E j, k \in RowsFor(trace[p][i].date) :
                          j # k /\ table[j].start_epoch = table[k].start_epoch

\* both instances read the same table before either inserted, both resolved
\* the day after its newest row as their start, both inserted for that day
\* and the table holds two rows for it
C16_Witness ==
    \E p, q \in ProcIds :
        /\ ReadSameLast(p, q)
        /\ snap[p].table = snap[q].table /\ snap[p].table # <<>>
        /\ start_date_dt[p] = start_date_dt[q]
        /\ Inserted(p, StrfTime(start_date_dt[p]))
        /\ Inserted(q, StrfTime(start_date_dt[q]))
        /\ Cardinality(RowsFor(StrfTime(start_date_dt[p]))) = 2
        /\ Len(table) = Len(snap[p].table) + 2


----------------------------------------------------------------------------
\* the day of the k-th pass of p's loop
PassDay(p, k) == StrfTime(PlusDays(start_date_dt[p], k - 1))

\* C17: within one run the days are processed in strictly ascending order,
\* one at a time. The window is resolved once, before the first fetch, and
\* does not move. The calls of the run are fetch, insert, fetch, insert, ...:
\* the k-th pass fetches once, for the k-th day from the start date and for
\* that day only, and the insert for the day follows its fetch and comes
\* before the fetch for the next day; no day of the window is skipped or
\* processed twice, a failed fetch being the last call of its run.
C17_AscendingOneAtATime ==
    /\ [](\A p \in ProcIds :
            Resolved(p) =>
                \A i \in 1..Len(trace[p]) :
                    LET e == trace[p][i]
                        k == (i + 1) \div 2
                    IN  /\ e.date = PassDay(p, k)
                        /\ e.until = e.date
                        /\ InWindow(p, e.date)
                        /\ i % 2 = 1 => IsFetch(e)
                        /\ i % 2 = 0 => IsInsert(e) /\ FetchReturned(trace[p][i - 1])
                        /\ FetchFailed(e) => i = Len(trace[p])
                        /\ (i = Len(trace[p]) /\ pc[p] = "store") => FetchReturned(e)
                        /\ (i = Len(trace[p]) /\ pc[p] = "fetch") =>
                              IsInsert(e) /\ StrfTime(current_date[p]) = NextDay(e.date))
    /\ [][\A p \in ProcIds :
            (Resolved(p) /\ Resolved(p)') =>
                /\ start_date_dt'[p] = start_date_dt[p]
                /\ end_date_dt'[p] = end_date_dt[p]
                /\ Len(trace'[p]) \in {Len(trace[p]), Len(trace[p]) + 1}
                /\ SubSeq(trace'[p], 1, Len(trace[p])) = trace[p]]_vars

\* a run in its third pass: it has fetched and inserted for two consecutive
\* days and has fetched for the third
C17_Witness ==
    \E p \in ProcIds :
        /\ pc[p] = "store"
        /\ Len(trace[p]) = 5
        /\ trace[p][3].date = NextDay(trace[p][1].date)
        /\ trace[p][5].date = NextDay(trace[p][3].date)


----------------------------------------------------------------------------
Ord(date_str) == Ymd2Ord(date_str.y, date_str.m, date_str.d)

\* the first n rows of the table were stored for consecutive days
Contiguous(n) == \A k \in 1..n : Ord(days[k]) = Ord(days[1]) + k - 1

\* the first n rows of the table are a contiguous timeline through the day
\* before date_str
ContiguousBefore(n, date_str) ==
    /\ Contiguous(n)
    /\ n > 0 => Ord(days[n]) = Ord(date_str) - 1

\* C18: resume after an aborted run. A run on a contiguous table that is ended
\* by a fetch failure on day N, every earlier insert of it having succeeded,
\* leaves the table contiguous through day N-1; the next run, its read
\* succeeding, starts at day N; and when that run is fully successful the
\* timeline is complete through its yesterday.
C18_ResumeAtFailedDay ==
    \A p \in ProcIds :
        /\ (/\ pc[p] = "log"
            /\ RunAbortDay(p) # None
            /\ Contiguous(Len(snap[p].table))) =>
                ContiguousBefore(Len(table), RunAbortDay(p))
        /\ (/\ Resolved(p) /\ snap[p].read_ok
            /\ prev.abort # None
            /\ ContiguousBefore(Len(snap[p].table), prev.abort)) =>
                /\ start_date_dt[p] = StrpTime(prev.abort)
                /\ (pc[p] = "log" /\ RunClean(p)) =>
                      ContiguousBefore(Len(table), Ord2Ymd(snap[p].today))


----------------------------------------------------------------------------
\* C19: sequential runs store no duplicates. While every last-date read has
\* succeeded (fetch and insert failures allowed), the rows of the table are
\* for strictly ascending days with disjoint epoch ranges, so no two rows
\* cover the same calendar day; and every day a run processes is later than
\* the day of every row stored when the run read the table.
C19_NoDuplicates ==
    ~read_failed =>
        /\ \A j, k \in 1..Len(table) :
              j < k => /\ Ord(days[j]) < Ord(days[k])
                       /\ table[j].end_epoch < table[k].start_epoch
        /\ \A p \in ProcIds :
              Resolved(p) =>
                  \A i \in 1..Len(trace[p]) : \A k \in 1..Len(snap[p].table) :
                      Ord(trace[p][i].date) > Ord(days[k])

\* every read having succeeded and some fetch or insert having failed, a run
\* that follows a run that inserted rows has inserted a row itself
C19_Witness ==
    \E p \in ProcIds :
        /\ Resolved(p) /\ ~read_failed /\ ~all_clean
        /\ prev.inserted >= 1
        /\ Len(table) > Len(snap[p].table)
        /\ Len(table) >= 3


----------------------------------------------------------------------------
\* C20: trailing storage failures are retried. Let the inserts of a run have
\* failed for every day from N through the end of its window. Then the next
\* run, its read succeeding, resolves a start date no later than N, and,
\* unless a fetch of it fails first, fetches for day N and attempts to store
\* it again.
C20_TrailingFailuresRetried ==
    \A p \in ProcIds :
        (Resolved(p) /\ snap[p].read_ok /\ prev.trailing # None) =>
            /\ DtLeq(start_date_dt[p], StrpTime(prev.trailing))
            /\ EndedWithoutFetchFailure(p) =>
                  /\ \E i \in EventsFor(p, prev.trailing) : IsFetch(trace[p][i])
                  /\ \E i \in EventsFor(p, prev.trailing) : IsInsert(trace[p][i])

==========================================================================
